---- MODULE Spec2Model ----
(***************************************************************************)
(* stm32-extras: GPIO pin-range access through BSRR/IDR and per-pin        *)
(* configuration through the bit-band alias of CRL/CRH (src/src/lib.rs).   *)
(*                                                                         *)
(* A 32-bit register value is kept as its two 16-bit halves [lo, hi]       *)
(* (for BSRR: lo = BS15..BS0, hi = BR15..BR0).                             *)
(***************************************************************************)
EXTENDS Integers, Sequences, FiniteSets, TLC

VARIABLES
    overflow_checks, \* build profile: TRUE = debug (shift overflow panics)
    panicked,        \* the program hit a panic and stopped
    port,            \* address of the GPIO register block (`self`)
    task,            \* what the caller works on: a pin range or a pin's config
    pins,            \* the 16 pin levels (ODR as driven by BSRR, read back by IDR)
    crbits,          \* CRL:CRH, the 64 configuration bits at the start of the
                     \* port: crbits[pin] is the pin's 4-bit group, bits
                     \* [4*pin, 4*pin+4)
    bus,             \* bus accesses of the current (last) operation
    call,            \* arguments, pre-state and result of the current (last) call
    last_write       \* arguments of the last write_pin_range not overwritten since

vars == <<overflow_checks, panicked, port, task, pins, crbits, bus, call, last_write>>

-----------------------------------------------------------------------------
(* Bounds of the model *)

\* number of 16-bit data patterns passed to write_pin_range
NumData == 3
\* number of initial pin-level patterns
NumPinStates == 3
\* number of GPIO ports (GPIOA, GPIOB, ...)
NumPorts == 2

(* Program constants *)

\* pins of a GPIO port, width of u16
PortBits == 16
PERIPHERALS_BASE == 1073741824
PERIPHERALS_ALIAS == 1107296256
\* byte offset of GPIOA in the peripheral region, and distance between ports
GPIOA_OFFSET == 67584
PORT_STRIDE == 1024

Pattern(i) ==
    CASE i = 1 -> 5
      [] i = 2 -> 65535
      [] i = 3 -> 42435
      [] OTHER -> (i * 40503) % 65536

PinPattern(i) == IF i = 1 THEN 0 ELSE Pattern(i)

DataSet == {Pattern(i) : i \in 1..NumData}
PinStates == {PinPattern(i) : i \in 1..NumPinStates}
Ports == {PERIPHERALS_BASE + GPIOA_OFFSET + PORT_STRIDE * i : i \in 0..(NumPorts - 1)}

\* the ranges inside the caller contract offset + count <= 16
Ranges == {r \in (0..(PortBits - 1)) \X (0..PortBits) : r[1] + r[2] <= PortBits}

-----------------------------------------------------------------------------
(* Bit arithmetic on naturals *)

Bit(x, i) == (x \div (2 ^ i)) % 2

RECURSIVE BitAnd(_, _)
BitAnd(a, b) ==
    IF a = 0 \/ b = 0 THEN 0
    ELSE (a % 2) * (b % 2) + 2 * BitAnd(a \div 2, b \div 2)

RECURSIVE BitOr(_, _)
BitOr(a, b) ==
    IF a = 0 THEN b
    ELSE IF b = 0 THEN a
    ELSE (IF a % 2 = 1 \/ b % 2 = 1 THEN 1 ELSE 0) + 2 * BitOr(a \div 2, b \div 2)

\* `!x` on u16
Not16(x) == (2 ^ PortBits - 1) - x

\* `1 << count` on u16 overflows when count >= 16
ShlOverflows(count) == count >= PortBits

\* `1 << count` on u16 without overflow checks: the shift amount is masked
WrappingShl1(count) == 2 ^ (count % PortBits)

MaskInclusive(count) == 2 ^ (count + 1) - 1

\* `let mask = (1 << count) - 1;` (u16), in a build that did not panic
mask(count) == WrappingShl1(count) - 1

\* u32::from(lo16) | (u32::from(hi16) << 16), then `<< offset` on u32
Shl32(w, offset) ==
    LET lo == w.lo * (2 ^ offset)
        hi == w.hi * (2 ^ offset)
    IN  [lo |-> lo % (2 ^ PortBits),
         hi |-> ((hi % (2 ^ PortBits)) + (lo \div (2 ^ PortBits))) % (2 ^ PortBits)]

\* `(bits >> offset) as u16` on a u32
Shr32AsU16(w, offset) ==
    ((w.lo \div (2 ^ offset)) + (w.hi * (2 ^ (PortBits - offset)))) % (2 ^ PortBits)

-----------------------------------------------------------------------------
(* Hardware *)

\* BSRR: a 1 in BSy sets pin y, a 1 in BRy resets it, BS wins, 0 does nothing
BSRR_write(p, w) == BitOr(BitAnd(p, Not16(w.hi)), w.lo)

\* IDR: bits [0,16) are the pin levels, bits [16,32) read as 0
IDR_read(p) == [lo |-> p, hi |-> 0]

-----------------------------------------------------------------------------
(* Pin range access, impl GPIOExtras for gpioa::RegisterBlock *)

BitsUnmasked(count, data) == [lo |-> data, hi |-> Not16(data)]

\* `let bits = u32::from(data & mask) | (u32::from(!data & mask) << 16);`
bits(count, data) ==
    [lo |-> BitAnd(data, mask(count)), hi |-> BitAnd(Not16(data), mask(count))]

\* the value handed to `self.bsrr.write`
BsrrValue(offset, count, data) == Shl32(bits(count, data), offset)

\* `((self.idr.read().bits() >> offset) as u16) & mask`
ReadValue(p, offset, count) == BitAnd(Shr32AsU16(IDR_read(p), offset), mask(count))

Panics(count) == overflow_checks /\ ShlOverflows(count)

Access(kind, reg, addr, value) == [kind |-> kind, reg |-> reg, addr |-> addr, value |-> value]

NoCall == [op |-> "none"]
NoWrite == [valid |-> FALSE, data |-> 0]

\* a read-modify-write of ODR in place of the BSRR write
write_pin_range_rmw(c, offset, count, data) ==
    LET w == BsrrValue(offset, count, data)
    IN  /\ bus' = [bus EXCEPT ![c] = <<Access("read", "odr", port, [lo |-> pins, hi |-> 0]),
                                       Access("write", "odr", port,
                                              [lo |-> BSRR_write(pins, w), hi |-> 0])>>]
        /\ pins' = BSRR_write(pins, w)
        /\ UNCHANGED panicked

\* fn write_pin_range(&self, offset, count, data), called by context c
write_pin_range(c, offset, count, data) ==
    IF Panics(count)
    THEN /\ panicked' = TRUE
         /\ bus' = [bus EXCEPT ![c] = <<>>]
         /\ UNCHANGED pins
    ELSE LET w == BsrrValue(offset, count, data)
         IN  /\ bus' = [bus EXCEPT ![c] = <<Access("write", "bsrr", port, w)>>]
             /\ pins' = BSRR_write(pins, w)
             /\ UNCHANGED panicked

\* fn read_pin_range(&self, offset, count) -> u16, called by context c
read_pin_range(c, offset, count) ==
    IF Panics(count)
    THEN /\ panicked' = TRUE
         /\ bus' = [bus EXCEPT ![c] = <<>>]
    ELSE /\ bus' = [bus EXCEPT ![c] = <<Access("read", "idr", port, IDR_read(pins))>>]
         /\ UNCHANGED panicked

-----------------------------------------------------------------------------
(* The callers: main-line code and an interrupt handler *)

Contexts == {"main", "irq"}

\* a context whose task says `once` issues a single call
MayCall(c) ==
    /\ ~panicked
    /\ IF task[c].once THEN call[c].op = "none" ELSE TRUE

CallWritePinRange(c) ==
    /\ task[c].kind = "range"
    /\ MayCall(c)
    /\ \E data \in DataSet :
        /\ write_pin_range(c, task[c].offset, task[c].count, data)
        /\ call' = [call EXCEPT ![c] =
                      [op |-> "write_pin_range", offset |-> task[c].offset,
                       count |-> task[c].count, data |-> data, pre |-> pins,
                       returned |-> ~Panics(task[c].count)]]
        /\ last_write' = IF Panics(task[c].count) THEN last_write
                         ELSE [last_write EXCEPT ![c] = [valid |-> TRUE, data |-> data]]
    /\ UNCHANGED <<overflow_checks, port, task, crbits>>

\* fn write_pin(&self, offset, bit)
CallWritePin(c) ==
    /\ task[c].kind = "range"
    /\ MayCall(c)
    /\ \E bit \in BOOLEAN :
        /\ write_pin_range(c, task[c].offset, 1, IF bit THEN 1 ELSE 0)
        /\ call' = [call EXCEPT ![c] =
                      [op |-> "write_pin", offset |-> task[c].offset, bit |-> bit,
                       pre |-> pins, returned |-> TRUE]]
    /\ last_write' = [last_write EXCEPT ![c] = NoWrite]
    /\ UNCHANGED <<overflow_checks, port, task, crbits>>

CallReadPinRange(c) ==
    /\ task[c].kind = "range"
    /\ MayCall(c)
    /\ read_pin_range(c, task[c].offset, task[c].count)
    /\ call' = [call EXCEPT ![c] =
                  [op |-> "read_pin_range", offset |-> task[c].offset,
                   count |-> task[c].count, pre |-> pins,
                   returned |-> ~Panics(task[c].count),
                   result |-> IF Panics(task[c].count) THEN 0
                              ELSE ReadValue(pins, task[c].offset, task[c].count)]]
    /\ UNCHANGED <<overflow_checks, port, task, pins, crbits, last_write>>

\* fn read_pin(&self, offset) -> bool
CallReadPin(c) ==
    /\ task[c].kind = "range"
    /\ MayCall(c)
    /\ read_pin_range(c, task[c].offset, 1)
    /\ call' = [call EXCEPT ![c] =
                  [op |-> "read_pin", offset |-> task[c].offset, pre |-> pins,
                   returned |-> TRUE,
                   result |-> ReadValue(pins, task[c].offset, 1) # 0]]
    /\ UNCHANGED <<overflow_checks, port, task, pins, crbits, last_write>>

-----------------------------------------------------------------------------
(* Bit-band alias and the pin configuration view *)

Fields == {"mode_low", "mode_high", "cnf_low", "cnf_high"}

FieldOffsetPacked(f) ==
    CASE f = "mode_low" -> 0
      [] f = "mode_high" -> 1
      [] f = "cnf_low" -> 2
      [] f = "cnf_high" -> 3

\* byte offset of a field in GPIOBitbandConfigBlock: four u32 cells in
\* declaration order
FieldOffset(f) ==
    CASE f = "mode_low" -> 0
      [] f = "mode_high" -> 4
      [] f = "cnf_low" -> 8
      [] f = "cnf_high" -> 12

\* size_of::<GPIOBitbandConfigBlock>(), the stride of `config: [_; 16]`
ConfigBlockSize == 4 * Cardinality(Fields)

BitbandNoScale(p) == PERIPHERALS_ALIAS + (p - PERIPHERALS_BASE)
BitbandBitsPerByte(p) == PERIPHERALS_ALIAS + (p - PERIPHERALS_BASE) * 8

\* to_bitband_address: alias of the first byte of the register block
to_bitband_address(p) ==
    LET byte_offset == p - PERIPHERALS_BASE
    IN  PERIPHERALS_ALIAS + byte_offset * 32

\* pin_config(pin): address of `registers.config[pin]`
pin_config(p, pin) == to_bitband_address(p) + pin * ConfigBlockSize

\* address of one VolatileCell of the pin's block
FieldAddress(p, pin, f) == pin_config(p, pin) + FieldOffset(f)

\* Bit-band hardware: the alias word at PERIPHERALS_ALIAS + 32 * byte + 4 * bit
\* is bit `bit` of the byte at PERIPHERALS_BASE + byte; a store writes bit 0
\* of the stored word to it.  The index is relative to the port's first bit.
AliasBit(p, addr) == (addr - PERIPHERALS_ALIAS) \div 4 - 8 * (p - PERIPHERALS_BASE)

\* the same decoding for any alias word: the word address and the bit (of
\* 32) the alias word stands for
AliasTarget(addr) ==
    LET bitnum == (addr - PERIPHERALS_ALIAS) \div 4
    IN  <<PERIPHERALS_BASE + 4 * (bitnum \div 32), bitnum % 32>>

\* x with bit k replaced by v
WithBit(x, k, v) == x - Bit(x, k) * (2 ^ k) + v * (2 ^ k)

\* a store that replaces the four bits of the pin, not the one bit
NibbleStore(mem, p, addr, value) ==
    LET b == AliasBit(p, addr)
    IN  [mem EXCEPT ![b \div 4] = (value % 2) * (2 ^ (b % 4))]

BitBandStore(mem, p, addr, value) ==
    LET b == AliasBit(p, addr)
    IN  IF b >= 0 /\ (b \div 4) \in DOMAIN mem
        THEN [mem EXCEPT ![b \div 4] = WithBit(@, b % 4, value % 2)]
        ELSE mem

\* the builder operations: the field writes of each, in program order
Set(f, v) == [field |-> f, value |-> v]

floating_swapped == <<Set("cnf_low", 1), Set("cnf_high", 0)>>
output2_as_output10 == <<Set("mode_low", 1), Set("mode_high", 0)>>
open_drain_and_general == <<Set("cnf_low", 1), Set("cnf_high", 0)>>
pull_up_down_swapped == <<Set("cnf_high", 1), Set("cnf_low", 0)>>

input_to_reset == <<Set("mode_low", 0), Set("mode_high", 0), Set("cnf_high", 0), Set("cnf_low", 1)>>

input == <<Set("mode_low", 0), Set("mode_high", 0)>>

output2 == <<Set("mode_low", 0), Set("mode_high", 1)>>

output10 == <<Set("mode_low", 1), Set("mode_high", 0)>>

output50 == <<Set("mode_low", 1), Set("mode_high", 1)>>

push_pull == <<Set("cnf_low", 0)>>

open_drain == <<Set("cnf_low", 1)>>

general == <<Set("cnf_high", 0)>>

alternate == <<Set("cnf_high", 1)>>

analog == <<Set("cnf_low", 0), Set("cnf_high", 0)>>

floating == <<Set("cnf_high", 0), Set("cnf_low", 1)>>

pull_up_down == <<Set("cnf_low", 0), Set("cnf_high", 1)>>

ModeOps == {"input", "output2", "output10", "output50"}
OutputOps == {"output2", "output10", "output50"}
CnfOps == {"push_pull", "open_drain", "general", "alternate",
           "analog", "floating", "pull_up_down"}
Ops == ModeOps \cup CnfOps

Writes(op) ==
    CASE op = "input" -> input
      [] op = "output2" -> output2
      [] op = "output10" -> output10
      [] op = "output50" -> output50
      [] op = "push_pull" -> push_pull
      [] op = "open_drain" -> open_drain
      [] op = "general" -> general
      [] op = "alternate" -> alternate
      [] op = "analog" -> analog
      [] op = "floating" -> floating
      [] op = "pull_up_down" -> pull_up_down

\* the call chains a caller writes on one handle, as in
\* `gpioc.pin_config(13).output2().open_drain()`
Chains ==
    {<<a>> : a \in Ops}
    \cup {<<a, a>> : a \in Ops}
    \cup {<<m, c>> : m \in ModeOps, c \in CnfOps}
    \cup {<<c, m>> : c \in CnfOps, m \in ModeOps}
    \cup {<<m, g, d>> : m \in OutputOps, g \in {"general", "alternate"},
                        d \in {"push_pull", "open_drain"}}

\* the operations a task may use, by the name of the group
OpsOf(group) ==
    CASE group = "any" -> Ops
      [] group = "mode" -> ModeOps
      [] group = "cnf" -> CnfOps
      [] group = "drive" -> {"push_pull", "open_drain"}
      [] group = "function" -> {"general", "alternate"}
      [] group = "output" -> {"output2", "open_drain"}

ChainsOver(group) == {ch \in Chains : \A j \in 1..Len(ch) : ch[j] \in OpsOf(group)}

\* the four fields of a pin as read back from CRL:CRH
Field(mem, pin, f) == Bit(mem[pin], FieldOffsetPacked(f))

\* `self.<field>.set(value)`: one store to the field's bit-band word
FieldSet(pin, w) ==
    LET addr == FieldAddress(port, pin, w.field)
    IN  /\ crbits' = BitBandStore(crbits, port, addr, w.value)
        /\ UNCHANGED <<pins, panicked>>

OpDone(cl) == cl.k = Len(Writes(cl.chain[cl.i]))
ChainDone(cl) == IF cl.op = "builder" THEN cl.i = Len(cl.chain) /\ OpDone(cl) ELSE TRUE

\* context c obtains pin_config(pin) and enters the first operation of a
\* chain: its first field write
BuilderCall(c) ==
    /\ task[c].kind = "config"
    /\ MayCall(c)
    /\ ChainDone(call[c])
    /\ \E chain \in ChainsOver(task[c].group) :
        LET w == Writes(chain[1])[1]
        IN  /\ FieldSet(task[c].pin, w)
            /\ bus' = [bus EXCEPT ![c] =
                         <<Access("write", w.field, FieldAddress(port, task[c].pin, w.field), w.value)>>]
            /\ call' = [call EXCEPT ![c] =
                          [op |-> "builder", pin |-> task[c].pin, chain |-> chain,
                           i |-> 1, k |-> 1, pre |-> crbits, pre_chain |-> crbits]]
    /\ UNCHANGED <<overflow_checks, port, task, last_write>>

\* the next field write of the operation in progress
BuilderStep(c) ==
    /\ ~panicked
    /\ call[c].op = "builder"
    /\ ~OpDone(call[c])
    /\ LET w == Writes(call[c].chain[call[c].i])[call[c].k + 1]
       IN  /\ FieldSet(call[c].pin, w)
           /\ bus' = [bus EXCEPT ![c] =
                        Append(@, Access("write", w.field, FieldAddress(port, call[c].pin, w.field), w.value))]
           /\ call' = [call EXCEPT ![c].k = @ + 1]
    /\ UNCHANGED <<overflow_checks, port, task, last_write>>

\* the operation returned `self`; the next operation of the chain starts
BuilderChain(c) ==
    /\ ~panicked
    /\ call[c].op = "builder"
    /\ OpDone(call[c])
    /\ call[c].i < Len(call[c].chain)
    /\ LET w == Writes(call[c].chain[call[c].i + 1])[1]
       IN  /\ FieldSet(call[c].pin, w)
           /\ bus' = [bus EXCEPT ![c] =
                        <<Access("write", w.field, FieldAddress(port, call[c].pin, w.field), w.value)>>]
           /\ call' = [call EXCEPT ![c].i = @ + 1, ![c].k = 1, ![c].pre = crbits]
    /\ UNCHANGED <<overflow_checks, port, task, last_write>>

-----------------------------------------------------------------------------
(* Initial states *)

\* CRL = CRH = 0x4444_4444: every pin a floating input
ResetConfig == [pin \in 0..(PortBits - 1) |-> 4]

\* the configuration after reset with one pin's four bits set to `nibble`
ConfigWith(pin, nibble) == [ResetConfig EXCEPT ![pin] = nibble]

GPIOA == PERIPHERALS_BASE + GPIOA_OFFSET

Idle == [kind |-> "none", once |-> TRUE]
RangeTask(r, once) == [kind |-> "range", offset |-> r[1], count |-> r[2], once |-> once]
ConfigTask(pin, group, once) == [kind |-> "config", pin |-> pin, group |-> group, once |-> once]

InitCommon ==
    /\ panicked = FALSE
    /\ bus = [c \in Contexts |-> <<>>]
    /\ call = [c \in Contexts |-> NoCall]
    /\ last_write = [c \in Contexts |-> NoWrite]

\* main-line code works on one pin range of GPIOA
InitRange ==
    /\ InitCommon
    /\ overflow_checks \in BOOLEAN
    /\ port = GPIOA
    /\ \E r \in Ranges : task = [main |-> RangeTask(r, FALSE), irq |-> Idle]
    /\ pins \in PinStates
    /\ crbits = ResetConfig

\* main-line code writes one call chain to the configuration of one pin,
\* which holds any of its 16 values; no shift is evaluated by the builder
\* operations, so the build profile is immaterial
InitConfig ==
    /\ InitCommon
    /\ overflow_checks = FALSE
    /\ port \in Ports
    /\ \E pin \in 0..(PortBits - 1) :
        /\ task = [main |-> ConfigTask(pin, "any", TRUE), irq |-> Idle]
        /\ \E nibble \in 0..15 : crbits = ConfigWith(pin, nibble)
    /\ pins = 0

\* main-line code writes one call chain after another to the configuration
\* of one pin of a port that is in its reset state
InitReset ==
    /\ InitCommon
    /\ overflow_checks = FALSE
    /\ port = GPIOA
    /\ \E pin \in 0..(PortBits - 1) :
        task = [main |-> ConfigTask(pin, "any", FALSE), irq |-> Idle]
    /\ pins = 0
    /\ crbits = ResetConfig

\* the ranges next to r: the pins above it, the pins below it
Above(r) == IF r[1] + r[2] < PortBits
            THEN {<<r[1] + r[2], PortBits - r[1] - r[2]>>} ELSE {}
Below(r) == {<<0, r[1]>>}

\* the pairs of tasks that do not overlap: ranges with no pin in common;
\* the same pin with disjoint fields; all fields of two different pins
DisjointTasks ==
    UNION {{[main |-> RangeTask(r, TRUE), irq |-> RangeTask(q, TRUE)] :
               q \in Above(r) \cup Below(r)} : r \in Ranges}
    \cup {[main |-> ConfigTask(pin, g[1], TRUE), irq |-> ConfigTask(pin, g[2], TRUE)] :
        pin \in 0..(PortBits - 1),
        g \in {<<"mode", "cnf">>, <<"cnf", "mode">>, <<"drive", "function">>}}
    \cup {[main |-> ConfigTask(pin, "output", TRUE),
           irq |-> ConfigTask((pin + 1) % PortBits, "output", TRUE)] :
        pin \in 0..(PortBits - 1)}

\* main-line code and an interrupt handler each issue one call on the same
\* port, on tasks that do not overlap
InitIrq ==
    /\ InitCommon
    /\ overflow_checks \in BOOLEAN
    /\ port = GPIOA
    /\ task \in DisjointTasks
    /\ pins \in PinStates
    /\ crbits = ResetConfig

Init == InitRange \/ InitConfig

NextRange ==
    \E c \in Contexts :
        \/ CallWritePinRange(c)
        \/ CallWritePin(c)
        \/ CallReadPinRange(c)
        \/ CallReadPin(c)

NextConfig ==
    \E c \in Contexts :
        \/ BuilderCall(c)
        \/ BuilderStep(c)
        \/ BuilderChain(c)

Next == NextRange \/ NextConfig

\* the calls of the interrupt scenario: write_pin_range, read_pin_range and
\* the builder operations
NextIrq ==
    \E c \in Contexts :
        \/ CallWritePinRange(c)
        \/ CallReadPinRange(c)
        \/ BuilderCall(c)
        \/ BuilderStep(c)
        \/ BuilderChain(c)

Spec == Init /\ [][Next]_vars

SpecRange == InitRange /\ [][NextRange]_vars

SpecConfig == InitConfig /\ [][NextConfig]_vars

SpecIrq == InitIrq /\ [][NextIrq]_vars

SpecReset == InitReset /\ [][NextConfig]_vars

-----------------------------------------------------------------------------
(* Pin ranges *)

InRange(i, offset, count) == offset <= i /\ i < offset + count

\* C1: write_pin_range(offset, count, data) leaves every pin outside
\* [offset, offset + count) at the level it had before the call.
WriteRangeFrame ==
    \A c \in Contexts :
        call[c].op = "write_pin_range" =>
            \A i \in 0..(PortBits - 1) :
                ~InRange(i, call[c].offset, call[c].count) =>
                    Bit(pins, i) = Bit(call[c].pre, i)

\* a write that changed a pin of a proper sub-range while a pin outside it is high
WriteRangeFrameWitness ==
    /\ call["main"].op = "write_pin_range"
    /\ call["main"].returned
    /\ call["main"].count \in 1..(PortBits - 1)
    /\ pins # call["main"].pre
    /\ \E i \in 0..(PortBits - 1) :
        ~InRange(i, call["main"].offset, call["main"].count) /\ Bit(pins, i) = 1

\* C2: write_pin_range(offset, count, data) followed by
\* read_pin_range(offset, count) returns data & ((1 << count) - 1), for every
\* offset in [0,16) and count in [0, 16 - offset].
WriteReadRoundTrip ==
    \A c \in Contexts :
        (/\ call[c].op = "read_pin_range"
         /\ call[c].returned
         /\ last_write[c].valid)
        => call[c].result = last_write[c].data % (2 ^ call[c].count)

\* C3: the value written to BSRR is
\* ((data & m) << offset) | ((~data & m) << (offset + 16)), m = (1 << count) - 1.
BsrrEncoding ==
    \A c \in Contexts :
        (call[c].op = "write_pin_range" /\ call[c].returned) =>
            /\ Len(bus[c]) = 1
            /\ bus[c][1].value =
                 [lo |-> (call[c].data % (2 ^ call[c].count)) * (2 ^ call[c].offset),
                  hi |-> ((2 ^ PortBits - 1 - call[c].data) % (2 ^ call[c].count))
                            * (2 ^ call[c].offset)]

-----------------------------------------------------------------------------
(* Bus accesses *)

\* the fields each builder operation names
NamedFields(op) ==
    CASE op \in ModeOps -> {"mode_low", "mode_high"}
      [] op \in {"push_pull", "open_drain"} -> {"cnf_low"}
      [] op \in {"general", "alternate"} -> {"cnf_high"}
      [] op \in {"analog", "floating", "pull_up_down"} -> {"cnf_low", "cnf_high"}

\* the bit-band word of bit 4 * pin + k of the configuration block
FieldWord(pin, f) ==
    PERIPHERALS_ALIAS + (port - PERIPHERALS_BASE) * 32 + (4 * pin + FieldOffsetPacked(f)) * 4

-----------------------------------------------------------------------------
(* Pin configuration *)

Mode(mem, pin) == <<Field(mem, pin, "mode_high"), Field(mem, pin, "mode_low")>>
Cnf(mem, pin) == <<Field(mem, pin, "cnf_high"), Field(mem, pin, "cnf_low")>>
Reserved(mem, pin) == Mode(mem, pin) = <<0, 0>> /\ Cnf(mem, pin) = <<1, 1>>

CurrentOp(cl) == cl.chain[cl.i]

\* C6: floating() writes cnf_high := 0 before cnf_low := 1, and after neither
\* write are cnf_low and cnf_high both 1, whatever the fields held before.
FloatingOrder ==
    \A c \in Contexts :
        (call[c].op = "builder" /\ CurrentOp(call[c]) = "floating") =>
            /\ Cnf(crbits, call[c].pin) # <<1, 1>>
            /\ bus[c][1].reg = "cnf_high" /\ bus[c][1].value = 0
            /\ OpDone(call[c]) => bus[c][2].reg = "cnf_low" /\ bus[c][2].value = 1

\* floating() entered with cnf = 11, after its first write
FloatingOrderWitness ==
    /\ call["main"].op = "builder"
    /\ CurrentOp(call["main"]) = "floating"
    /\ call["main"].k = 1
    /\ Cnf(call["main"].pre, call["main"].pin) = <<1, 1>>
    /\ Cnf(crbits, call["main"].pin) = <<0, 1>>

\* C7: input(), output2(), output10() and output50(), entered in a
\* configuration that is not the reserved one, never present mode = 00 with
\* cnf = 11 after any of their field writes.
ModeChangeNeverReserved ==
    \A c \in Contexts :
        (/\ call[c].op = "builder"
         /\ CurrentOp(call[c]) \in ModeOps
         /\ ~Reserved(call[c].pre, call[c].pin))
        => ~Reserved(crbits, call[c].pin)

\* the twelve named configurations and the chain that builds each
NamedCode(chain) ==
    LET m == CASE chain[1] = "input" -> <<0, 0>>
               [] chain[1] = "output2" -> <<1, 0>>
               [] chain[1] = "output10" -> <<0, 1>>
               [] chain[1] = "output50" -> <<1, 1>>
        rest == SubSeq(chain, 2, Len(chain))
        cf == CASE rest = <<"analog">> -> <<0, 0>>
                [] rest = <<"floating">> -> <<0, 1>>
                [] rest = <<"pull_up_down">> -> <<1, 0>>
                [] rest = <<"general", "push_pull">> -> <<0, 0>>
                [] rest = <<"general", "open_drain">> -> <<0, 1>>
                [] rest = <<"alternate", "push_pull">> -> <<1, 0>>
                [] rest = <<"alternate", "open_drain">> -> <<1, 1>>
    IN  [mode |-> m, cnf |-> cf]

NamedChains ==
    {<<"input", c>> : c \in {"analog", "floating", "pull_up_down"}}
    \cup {<<m, g, d>> : m \in OutputOps, g \in {"general", "alternate"},
                        d \in {"push_pull", "open_drain"}}

\* C8: each named configuration is produced by its builder sequence from
\* any starting field values.
NamedConfigurations ==
    \A c \in Contexts :
        (/\ call[c].op = "builder"
         /\ call[c].chain \in NamedChains
         /\ ChainDone(call[c]))
        => /\ Mode(crbits, call[c].pin) = NamedCode(call[c].chain).mode
           /\ Cnf(crbits, call[c].pin) = NamedCode(call[c].chain).cnf

\* output50().alternate().open_drain() completed on a pin that was an analog input
NamedConfigurationsWitness ==
    /\ call["main"].op = "builder"
    /\ call["main"].chain = <<"output50", "alternate", "open_drain">>
    /\ ChainDone(call["main"])
    /\ call["main"].pre_chain[call["main"].pin] = 0
    /\ crbits[call["main"].pin] = 15

\* C9: a builder operation changes only the fields it names, of its own pin;
\* pin_config(13).output2().open_drain() ends with mode_low = 0,
\* mode_high = 1, cnf_low = 1 and cnf_high as before the chain.
BuilderFrame ==
    \A c \in Contexts :
        call[c].op = "builder" =>
            /\ \A f \in Fields \ NamedFields(CurrentOp(call[c])) :
                  Field(crbits, call[c].pin, f) = Field(call[c].pre, call[c].pin, f)
            /\ \A q \in 0..(PortBits - 1) :
                  q # call[c].pin => crbits[q] = call[c].pre[q]
            /\ pins = 0
            /\ (call[c].chain = <<"output2", "open_drain">> /\ ChainDone(call[c])) =>
                  /\ Field(crbits, call[c].pin, "mode_low") = 0
                  /\ Field(crbits, call[c].pin, "mode_high") = 1
                  /\ Field(crbits, call[c].pin, "cnf_low") = 1
                  /\ Field(crbits, call[c].pin, "cnf_high")
                       = Field(call[c].pre_chain, call[c].pin, "cnf_high")
                  /\ \A q \in 0..(PortBits - 1) :
                        q # call[c].pin => crbits[q] = call[c].pre_chain[q]

\* pin_config(13).output2().open_drain() completed on a pin that was
\* input, pull-up/down: cnf_high is still 1
BuilderFrameWitness ==
    /\ call["main"].op = "builder"
    /\ call["main"].pin = 13
    /\ call["main"].chain = <<"output2", "open_drain">>
    /\ ChainDone(call["main"])
    /\ call["main"].pre_chain[13] = 8
    /\ crbits[13] = 14

\* the configuration bit a (pin, field) pair is stored to
TargetBit(pin, f) == AliasBit(port, FieldAddress(port, pin, f))

\* C10: pin_config(pin) addresses exactly the pin's four configuration bits:
\* field k of pin is written at ALIAS_BASE + (port - PERIPHERAL_BASE) * 32
\* + (4 * pin + k) * 4, the bit-band word of bit 4 * pin + k of the
\* configuration block; the 64 (pin, field) pairs are 64 distinct bits, all
\* inside the block.
PinConfigAddress ==
    /\ \A pin \in 0..(PortBits - 1) : \A f \in Fields :
          /\ FieldAddress(port, pin, f) = FieldWord(pin, f)
          /\ TargetBit(pin, f) = 4 * pin + FieldOffsetPacked(f)
          /\ TargetBit(pin, f) \in 0..63
    /\ Cardinality({TargetBit(pin, f) : pin \in 0..(PortBits - 1), f \in Fields}) = 64
    /\ \A c \in Contexts :
          call[c].op = "builder" =>
              LET a == bus[c][Len(bus[c])]
              IN  /\ a.addr = FieldWord(call[c].pin, a.reg)
                  /\ Field(crbits, call[c].pin, a.reg) = a.value

\* cnf_high of pin 15 of the second port set through its bit-band word
PinConfigAddressWitness ==
    /\ port = GPIOA + PORT_STRIDE
    /\ call["main"].op = "builder"
    /\ call["main"].pin = 15
    /\ bus["main"][Len(bus["main"])].reg = "cnf_high"
    /\ bus["main"][Len(bus["main"])].addr = PERIPHERALS_ALIAS + 32 * (GPIOA_OFFSET + PORT_STRIDE) + 4 * 63
    /\ Field(crbits, 15, "cnf_high") = 1
    /\ Field(call["main"].pre, 15, "cnf_high") = 0

-----------------------------------------------------------------------------
(* Main-line code and an interrupt handler on the same port *)

\* the field writes a builder call has performed so far
RECURSIVE WritesOfOps(_, _)
WritesOfOps(chain, n) ==
    IF n = 0 THEN <<>> ELSE WritesOfOps(chain, n - 1) \o Writes(chain[n])

Performed(cl) ==
    WritesOfOps(cl.chain, cl.i - 1) \o SubSeq(Writes(cl.chain[cl.i]), 1, cl.k)

\* the pins [offset, offset + count) as a number
PinsOfRange(p, offset, count) == (p \div (2 ^ offset)) % (2 ^ count)

\* C5: when main-line code and an interrupt handler issue write_pin_range on
\* ranges that do not overlap, or builder operations on different fields or
\* pins, then under every interleaving of their bus writes the pins and
\* fields of each context hold exactly what that context wrote.
NonInterference ==
    \A c \in Contexts :
        /\ last_write[c].valid =>
              PinsOfRange(pins, task[c].offset, task[c].count)
                = last_write[c].data % (2 ^ task[c].count)
        /\ call[c].op = "builder" =>
              \A j \in 1..Len(Performed(call[c])) :
                  LET w == Performed(call[c])[j]
                  IN  (\A l \in (j + 1)..Len(Performed(call[c])) :
                          Performed(call[c])[l].field # w.field)
                      => Field(crbits, call[c].pin, w.field) = w.value

-----------------------------------------------------------------------------
(* The bit-band translation *)

\* the two configuration words of a port: CRL and CRH
ConfigWords(p) == {p, p + 4}

\* the words of a port's register block: CRL, CRH, IDR, ODR, BSRR, BRR, LCKR
RegisterWords(p) == {p + 4 * j : j \in 0..6}

\* bit n of the configuration word at address R of port p
WordBit(mem, p, R, n) ==
    LET b == 8 * (R - p) + n
    IN  Bit(mem[b \div 4], b % 4)

\* the alias word the translation gives for bit n of the word at R
AliasWord(R, n) == to_bitband_address(R) + 4 * n

\* C11: the translation alias = ALIAS_BASE + (real - PERIPHERAL_BASE) * 32
\* pairs (word address R, bit n of 32) with alias words one to one: a store
\* to the alias word at translate(R) + 4 * n changes exactly bit n of the
\* word at R and no other bit of any word, and two different pairs never
\* get the same alias word.  The pure part is evaluated on every value of
\* the configuration before the first call, the store part on every first
\* field write of an operation.
BitBandBijection ==
    /\ (\A c \in Contexts : call[c].op = "none") =>
          /\ \A R \in ConfigWords(port) : \A n \in 0..31 : \A v \in 0..1 :
                LET after == BitBandStore(crbits, port, AliasWord(R, n), v)
                IN  /\ AliasTarget(AliasWord(R, n)) = <<R, n>>
                    /\ \A S \in ConfigWords(port) : \A m \in 0..31 :
                          WordBit(after, port, S, m)
                            = IF <<S, m>> = <<R, n>> THEN v
                              ELSE WordBit(crbits, port, S, m)
          /\ Cardinality({AliasWord(R, n) :
                             R \in UNION {RegisterWords(p) : p \in Ports}, n \in 0..31})
                = Cardinality(Ports) * 7 * 32
    /\ \A c \in Contexts :
          (call[c].op = "builder" /\ call[c].k = 1) =>
              LET a == bus[c][Len(bus[c])]
                  t == AliasTarget(a.addr)
              IN  /\ t[1] \in ConfigWords(port)
                  /\ a.addr = AliasWord(t[1], t[2])
                  /\ \A S \in ConfigWords(port) : \A m \in 0..31 :
                        WordBit(crbits, port, S, m)
                          = IF <<S, m>> = t THEN a.value
                            ELSE WordBit(call[c].pre, port, S, m)

\* mode_low of pin 9, bit 4 of CRH of the second port, cleared through its
\* alias word
BitBandBijectionWitness ==
    /\ port = GPIOA + PORT_STRIDE
    /\ call["main"].op = "builder"
    /\ call["main"].k = 1
    /\ call["main"].pin = 9
    /\ bus["main"][1].addr = AliasWord(port + 4, 4)
    /\ AliasTarget(bus["main"][1].addr) = <<port + 4, 4>>
    /\ call["main"].pre[9] = 15
    /\ crbits[9] = 14

-----------------------------------------------------------------------------
(* Reading pins *)

\* C12: read_pin_range(offset, count) returns the input data register
\* shifted right by offset and masked to the count low bits, for every
\* offset in [0, 16) and count in [0, 16 - offset], count = 16 included, and
\* has no side effect: it stores to no register, and the pins and every
\* configuration field are the same after the call as before.
ReadPinRangeValue ==
    \A c \in Contexts :
        call[c].op = "read_pin_range" =>
            /\ call[c].returned
            /\ call[c].result = PinsOfRange(call[c].pre, call[c].offset, call[c].count)
            /\ \A j \in 1..Len(bus[c]) : bus[c][j].kind = "read"
            /\ pins = call[c].pre
            /\ crbits = ResetConfig

\* C13: write_pin(offset, bit) has the effect of write_pin_range(offset, 1,
\* if bit then 1 else 0): the same single store, after which pin offset is
\* bit and every other pin is unchanged; read_pin(offset) is true exactly
\* when read_pin_range(offset, 1) is nonzero, which is exactly when pin
\* offset is 1.
SinglePinAccess ==
    \A c \in Contexts :
        /\ call[c].op = "write_pin" =>
              LET b == IF call[c].bit THEN 1 ELSE 0
              IN  /\ call[c].returned
                  /\ bus[c] = <<Access("write", "bsrr", port, BsrrValue(call[c].offset, 1, b))>>
                  /\ \A i \in 0..(PortBits - 1) :
                        Bit(pins, i) = IF i = call[c].offset THEN b
                                       ELSE Bit(call[c].pre, i)
        /\ call[c].op = "read_pin" =>
              /\ call[c].returned
              /\ call[c].result = (ReadValue(call[c].pre, call[c].offset, 1) # 0)
              /\ call[c].result = (Bit(call[c].pre, call[c].offset) = 1)
              /\ pins = call[c].pre

\* pin 5 of 0xA5C3 set by write_pin(5, true), its neighbours as they were
SinglePinAccessWitness ==
    /\ call["main"].op = "write_pin"
    /\ call["main"].offset = 5
    /\ call["main"].bit
    /\ call["main"].pre = 42435
    /\ pins = 42467

-----------------------------------------------------------------------------
(* Sequences of field writes *)

\* the positions of the performed writes that wrote field f
WritesTo(cl, f) == {j \in 1..Len(Performed(cl)) : Performed(cl)[j].field = f}

Last(S) == CHOOSE j \in S : \A l \in S : l <= j

\* C14: a sequence of field writes is not atomic: between the writes of an
\* operation or of a chain such as output2().open_drain(), the pin's
\* configuration is visible with the writes performed so far applied and
\* the later ones not yet: every field written so far holds the last value
\* written to it, every other field its value from before the chain.
PartialConfiguration ==
    \A c \in Contexts :
        call[c].op = "builder" =>
            \A f \in Fields :
                Field(crbits, call[c].pin, f)
                  = IF WritesTo(call[c], f) = {}
                    THEN Field(call[c].pre_chain, call[c].pin, f)
                    ELSE Performed(call[c])[Last(WritesTo(call[c], f))].value

\* output2().open_drain() on an analog input: once output2 has returned and
\* before open_drain writes, the pin is a 2 MHz push-pull output, which is
\* neither the starting configuration nor the final open-drain one
PartialConfigurationWitness ==
    /\ call["main"].op = "builder"
    /\ call["main"].pin = 13
    /\ call["main"].chain = <<"output2", "open_drain">>
    /\ call["main"].i = 1
    /\ OpDone(call["main"])
    /\ call["main"].pre_chain[13] = 0
    /\ crbits[13] = 2
    /\ crbits[13] # call["main"].pre_chain[13]
    /\ crbits[13] # 6

-----------------------------------------------------------------------------
(* The configuration of a pin over sequences of operations *)

\* C15: starting from the reset state (input, floating: mode = 00,
\* cnf = 01), after every finite sequence of completed builder operations
\* on a pin its four fields encode a named configuration, never the
\* reserved combination mode = 00 with cnf = 11.
StaysNamed ==
    \A c \in Contexts :
        (call[c].op = "builder" /\ OpDone(call[c])) =>
            ~Reserved(crbits, call[c].pin)

\* the same writes in the opposite order
Reverse(ws) == [j \in 1..Len(ws) |-> ws[Len(ws) + 1 - j]]

\* the four bits of a pin after the first j writes of ws
RECURSIVE After(_, _, _)
After(nibble, ws, j) ==
    IF j = 0 THEN nibble
    ELSE WithBit(After(nibble, ws, j - 1), FieldOffsetPacked(ws[j].field), ws[j].value)

ReservedCode(nibble) ==
    /\ Bit(nibble, 0) = 0 /\ Bit(nibble, 1) = 0
    /\ Bit(nibble, 2) = 1 /\ Bit(nibble, 3) = 1

\* some state during or after the writes ws, started from nibble, is reserved
HitsReserved(nibble, ws) == \E j \in 1..Len(ws) : ReservedCode(After(nibble, ws, j))

CodeOrder(op) == Writes(op)
OtherOrder(op) == Reverse(Writes(op))

\* the configuration of the pin the task works on
TaskCode(c) == crbits[task[c].pin]

\* the states of the first operation of a chain are those of its writes
\* applied in program order to the configuration before the call
FollowsCodeOrder ==
    \A c \in Contexts :
        (call[c].op = "builder" /\ call[c].i = 1) =>
            crbits[call[c].pin]
              = After(call[c].pre_chain[call[c].pin], CodeOrder(call[c].chain[1]), call[c].k)

\* C16 as stated: floating() is the only builder operation whose write
\* order matters: each of input, output2, output10, output50, analog and
\* pull_up_down, started from any named configuration, produces the
\* reserved combination in no intermediate or final state, in either order
\* of its two writes.
OnlyFloatingOrderMatters ==
    /\ FollowsCodeOrder
    /\ \A c \in Contexts :
          (task[c].kind = "config" /\ ~ReservedCode(TaskCode(c))) =>
              \A op \in {"input", "output2", "output10", "output50", "analog", "pull_up_down"} :
                  /\ ~HitsReserved(TaskCode(c), CodeOrder(op))
                  /\ ~HitsReserved(TaskCode(c), OtherOrder(op))

\* C16: started from a named configuration, output50 and analog produce
\* the reserved combination in neither order of their two writes;
\* pull_up_down, output10 and floating avoid it in the order of the code
\* but not in the other order (from floating input, from 2 MHz alternate
\* open-drain, from pull-up/down input); output2 produces it in the order of
\* the code from 10 MHz alternate open-drain and not in the other order;
\* input produces it in both orders from every alternate open-drain output.
WhichOrdersMatter ==
    /\ FollowsCodeOrder
    /\ \A c \in Contexts :
          (task[c].kind = "config" /\ ~ReservedCode(TaskCode(c))) =>
              LET n == TaskCode(c)
              IN  /\ \A op \in {"output50", "analog"} :
                        /\ ~HitsReserved(n, CodeOrder(op))
                        /\ ~HitsReserved(n, OtherOrder(op))
                  /\ ~HitsReserved(n, CodeOrder("pull_up_down"))
                  /\ HitsReserved(n, OtherOrder("pull_up_down")) <=> n = 4
                  /\ ~HitsReserved(n, CodeOrder("output10"))
                  /\ HitsReserved(n, OtherOrder("output10")) <=> n = 14
                  /\ ~HitsReserved(n, CodeOrder("floating"))
                  /\ HitsReserved(n, OtherOrder("floating")) <=> n = 8
                  /\ HitsReserved(n, CodeOrder("output2")) <=> n = 13
                  /\ ~HitsReserved(n, OtherOrder("output2"))
                  /\ HitsReserved(n, CodeOrder("input")) <=> n \in {13, 14, 15}
                  /\ HitsReserved(n, OtherOrder("input")) <=> n \in {13, 14, 15}

\* pull_up_down() on a floating input after its first write: the pin is an
\* analog input, where the other order would have presented cnf = 11
WhichOrdersMatterWitness ==
    /\ call["main"].op = "builder"
    /\ call["main"].chain = <<"pull_up_down">>
    /\ call["main"].k = 1
    /\ call["main"].pre_chain[call["main"].pin] = 4
    /\ crbits[call["main"].pin] = 0
    /\ ReservedCode(After(4, OtherOrder("pull_up_down"), 1))

\* C17: changing the output speed never makes the pin an input in between:
\* when output2(), output10() or output50() is called on a pin that is in
\* an output mode (mode # 00), no state after any of its field writes has
\* mode = 00.
SpeedChangeStaysOutput ==
    \A c \in Contexts :
        (/\ call[c].op = "builder"
         /\ CurrentOp(call[c]) \in OutputOps
         /\ Mode(call[c].pre, call[c].pin) # <<0, 0>>) =>
            Mode(crbits, call[c].pin) # <<0, 0>>

\* the four bits of a pin after all the writes of ws
Run(nibble, ws) == After(nibble, ws, Len(ws))

\* a chain of one mode operation and one cnf operation, in either order
MixedPair(chain) ==
    /\ Len(chain) = 2
    /\ \/ chain[1] \in ModeOps /\ chain[2] \in CnfOps
       \/ chain[1] \in CnfOps /\ chain[2] \in ModeOps

\* C18: builder operations are idempotent and the mode group commutes with
\* the cnf group: from every starting values of the four fields, an
\* operation applied twice in a row ends in the state it ends in when
\* applied once, and a mode operation M followed by a cnf operation C ends
\* in the same four field values as C followed by M.
IdempotentAndCommuting ==
    \A c \in Contexts :
        (call[c].op = "builder" /\ ChainDone(call[c]) /\ Len(call[c].chain) = 2) =>
            LET chain == call[c].chain
                start == call[c].pre_chain[call[c].pin]
            IN  /\ chain[1] = chain[2] =>
                      /\ crbits = call[c].pre
                      /\ crbits[call[c].pin] = Run(start, Writes(chain[1]))
                /\ MixedPair(chain) =>
                      /\ crbits[call[c].pin]
                            = Run(Run(start, Writes(chain[2])), Writes(chain[1]))
                      /\ \A pin \in 0..(PortBits - 1) :
                            pin # call[c].pin => crbits[pin] = call[c].pre_chain[pin]

\* floating().output10() on a 2 MHz alternate push-pull output ends as
\* output10().floating() does: 10 MHz general purpose open-drain
IdempotentAndCommutingWitness ==
    /\ call["main"].op = "builder"
    /\ call["main"].chain = <<"floating", "output10">>
    /\ ChainDone(call["main"])
    /\ call["main"].pre_chain[call["main"].pin] = 10
    /\ crbits[call["main"].pin] = 5
    /\ Run(Run(10, Writes("output10")), Writes("floating")) = 5

====
